---- MODULE Spec2Model ----
(***************************************************************************)
(* Model of src/script-v4.js: the navigation-menu controller (desktop      *)
(* dropdowns, mobile hamburger panel and accordions, keyboard handling,    *)
(* hover debouncing and the resize handler).                               *)
(*                                                                         *)
(* The program is single threaded: every action below is one event-loop    *)
(* task, i.e. the dispatch of one DOM event to all its listeners or the    *)
(* run of one timer callback.  Time is not measured: a scheduled timer may *)
(* fire at any later turn, which covers every order the delays allow.      *)
(*                                                                         *)
(* document.activeElement belongs to the browser and the user can move it  *)
(* between any two tasks, so the element holding the focus when a key goes *)
(* down is an input of the keydown event; the focus() calls of the script  *)
(* are recorded in focusMoved.                                             *)
(***************************************************************************)
EXTENDS Integers, FiniteSets, Sequences, TLC

\* ------------------------------------------------------------------------
\* Program constants and the document the script runs against
\* ------------------------------------------------------------------------

MOBILE_BREAKPOINT == 768

\* Line 3: the value TRANSITION_DURATION holds before init runs, in ms.
DEFAULT_TRANSITION_DURATION == 600

\* Bound of the model: the timers that are scheduled while no variable of the
\* script refers to them (close timers whose handle was overwritten and the
\* focus timers, whose handles are never kept).
MaxUntrackedTimers == 1

NULL == "null"

\* Viewport widths a resize can produce: the breakpoint itself and one above.
Widths == {MOBILE_BREAKPOINT, MOBILE_BREAKPOINT + 1}

\* Panels: the ids d for which an element 'dropdown-' + d exists.
Dropdowns == {"products", "services"}

\* The [data-dropdown] trigger buttons; the last one names an id without panel.
MenuButtons == {"btnProducts", "btnServices", "btnMissing"}

dataDropdown(button) ==
    CASE button = "btnProducts" -> "products"
      [] button = "btnServices" -> "services"
      [] OTHER -> "missing"

getDropdownById(dropdownId) ==
    IF dropdownId \in Dropdowns THEN dropdownId ELSE NULL

\* The .mobile-accordion-button elements; aria-controls of the last one does
\* not resolve to a content region.
AccordionButtons == {"accA", "accB", "accMissing"}
AccordionContents == {"contentA", "contentB"}

ariaControls(button) ==
    CASE button = "accA" -> "contentA"
      [] button = "accB" -> "contentB"
      [] OTHER -> "contentMissing"

getContentById(targetId) ==
    IF targetId \in AccordionContents THEN targetId ELSE NULL

\* The <a> elements of every panel, in document order.
LinkNames == <<"first", "last">>
Links == Dropdowns \X {LinkNames[i] : i \in 1..Len(LinkNames)}

\* Elements that can hold the focus (document.activeElement).  NOWHERE is
\* the value of focusMoved when the script has not moved the focus.
El(kind, of, name) == [kind |-> kind, of |-> of, name |-> name]
Body == El("body", NULL, NULL)
NOWHERE == El("none", NULL, NULL)
HamburgerEl == El("hamburger", NULL, NULL)
MobileNavCloseEl == El("mobileNavClose", NULL, NULL)
ButtonEl(b) == El("menuButton", b, NULL)
AccordionEl(a) == El("accordionButton", a, NULL)
LinkEl(d, name) == El("link", d, name)

Focusable ==
    {Body, HamburgerEl, MobileNavCloseEl}
        \cup {ButtonEl(b) : b \in MenuButtons}
        \cup {AccordionEl(a) : a \in AccordionButtons}
        \cup {LinkEl(l[1], l[2]) : l \in Links}

\* Documents differ in the accordion sections their mobile panel holds.
NoAccordion == {}

\* Collaborator elements looked up once at load (lines 16-22).
Collaborators ==
    {"menuWrapper", "dropdownArea", "backdrop", "hamburgerButton", "mobileNav", "mobileNavClose"}

\* Timer callbacks held by debounceTimeout.
NoDebounce == [kind |-> "none", button |-> NULL]
ShowCallback(b) == [kind |-> "show", button |-> b]
LeaveCallback == [kind |-> "leave", button |-> NULL]
ResizeCallback == [kind |-> "resize", button |-> NULL]

\* ------------------------------------------------------------------------
\* Strings and numbers of the duration parsing (init, lines 324-331)
\* ------------------------------------------------------------------------

\* Bounds of the custom-property values: the digits before and after the
\* decimal point of the number they carry.
MaxIntegerDigits == 2
MaxFractionDigits == 2

\* A string is a sequence of characters.  A number is held as an integer
\* count of Unit-ths, so that every decimal of the bounded values is exact;
\* durations are held as Unit-ths of a millisecond.
Unit == 10 ^ MaxFractionDigits

\* The value parseFloat returns when its argument starts with no number.
NaN == -1

\* Arithmetic on NaN gives NaN.
times(a, b) == IF a = NaN \/ b = NaN THEN NaN ELSE a * b

Digits == <<"0", "1", "2", "3", "4", "5", "6", "7", "8", "9">>
IsDigit(c) == \E i \in 1..Len(Digits) : Digits[i] = c
DigitValue(c) == (CHOOSE i \in 1..Len(Digits) : Digits[i] = c) - 1

\* String.prototype.trim (line 325).
RECURSIVE trimStart(_)
trimStart(str) ==
    IF str # <<>> /\ Head(str) = " " THEN trimStart(Tail(str)) ELSE str

RECURSIVE trimEnd(_)
trimEnd(str) ==
    IF str # <<>> /\ str[Len(str)] = " "
    THEN trimEnd(SubSeq(str, 1, Len(str) - 1))
    ELSE str

trim(str) == trimEnd(trimStart(str))

\* String.prototype.endsWith (lines 327, 329).
endsWith(str, searchString) ==
    /\ Len(searchString) <= Len(str)
    /\ SubSeq(str, Len(str) - Len(searchString) + 1, Len(str)) = searchString

\* The number of digits of str from index from on.
RECURSIVE digitRun(_, _)
digitRun(str, from) ==
    IF from <= Len(str) /\ IsDigit(str[from]) THEN 1 + digitRun(str, from + 1) ELSE 0

\* The value of a run of decimal digits.
RECURSIVE digitsValue(_)
digitsValue(digits) ==
    IF digits = <<>> THEN 0
    ELSE 10 * digitsValue(SubSeq(digits, 1, Len(digits) - 1)) + DigitValue(digits[Len(digits)])

\* parseFloat (lines 328, 330) on strings without sign and exponent: the
\* longest prefix 'digits', 'digits.', 'digits.digits' or '.digits' is
\* converted and the rest of the string ignored; NaN when there is none.
parseFloat(str) ==
    LET t == trimStart(str)
        intLen == digitRun(t, 1)
        hasPoint == intLen < Len(t) /\ t[intLen + 1] = "."
        fracLen == IF hasPoint THEN digitRun(t, intLen + 2) ELSE 0
        intDigits == SubSeq(t, 1, intLen)
        fracDigits == SubSeq(t, intLen + 2, intLen + 1 + fracLen)
    IN  IF intLen = 0 /\ fracLen = 0 THEN NaN
        ELSE digitsValue(intDigits) * Unit + (digitsValue(fracDigits) * Unit) \div (10 ^ fracLen)

\* The value of --transition-duration in the stylesheet's own example
\* (comment of line 326).
ExampleDuration == <<"0", ".", "6", "s">>

\* ------------------------------------------------------------------------
\* State
\* ------------------------------------------------------------------------

VARIABLES
    innerWidth,            \* window.innerWidth
    currentOpenDropdown,   \* NULL or a panel
    dropdownTimeout,       \* the live timer the handle refers to: "none", "anim", "delay"
    strayTimers,           \* live close timers no handle refers to any more, per kind
    debounceTimeout,       \* the live debounce timer's callback, or NoDebounce
    focusTimers,           \* pending focus-move timers: "close" (line 133), "first" (line 233)
    lastFocusedElement,    \* NULL or a menu button
    mobileMenuOpen,
    dropdownActive,        \* panels carrying class 'active'
    areaActive,            \* .dropdown-area carries 'active'
    backdropActive,        \* .menu-backdrop carries 'active'
    buttonActive,          \* menu buttons carrying 'active'
    buttonExpanded,        \* menu buttons with aria-expanded = 'true'
    tabindex,              \* tabindex attribute of every panel link
    mobileNavActive,       \* .mobile-nav carries 'active'
    hamburgerExpanded,     \* aria-expanded of the hamburger button
    bodyOverflow,          \* document.body.style.overflow
    accordionExpanded,     \* accordion buttons with aria-expanded = 'true'
    contentActive,         \* accordion content regions carrying 'active'
    focusMoved,            \* the element the last task called focus() on, or NOWHERE
    pointerInside,         \* the pointer is over .menu-wrapper
    absent,                \* collaborator elements the document lacks
    accordionButtons,      \* the .mobile-accordion-button elements of the document
    errorRaised,           \* the last task raised an uncaught TypeError
    transitionProperty,    \* getPropertyValue('--transition-duration'), a string
    TRANSITION_DURATION,   \* the animation duration, in Unit-ths of a millisecond
    lastCall               \* return path of the last show/hide/open/close call of the last task

vars ==
    <<innerWidth, currentOpenDropdown, dropdownTimeout, strayTimers, debounceTimeout,
      focusTimers, lastFocusedElement, mobileMenuOpen, dropdownActive, areaActive,
      backdropActive, buttonActive, buttonExpanded, tabindex, mobileNavActive,
      hamburgerExpanded, bodyOverflow, accordionExpanded, contentActive, focusMoved,
      pointerInside, absent, accordionButtons, errorRaised, transitionProperty,
      TRANSITION_DURATION, lastCall>>

\* The state as one record, for the operators that model the functions.
\* `thrown` is control flow only: the running listener has raised.
Cur ==
    [innerWidth |-> innerWidth,
     currentOpenDropdown |-> currentOpenDropdown,
     dropdownTimeout |-> dropdownTimeout,
     strayTimers |-> strayTimers,
     debounceTimeout |-> debounceTimeout,
     focusTimers |-> focusTimers,
     lastFocusedElement |-> lastFocusedElement,
     mobileMenuOpen |-> mobileMenuOpen,
     dropdownActive |-> dropdownActive,
     areaActive |-> areaActive,
     backdropActive |-> backdropActive,
     buttonActive |-> buttonActive,
     buttonExpanded |-> buttonExpanded,
     tabindex |-> tabindex,
     mobileNavActive |-> mobileNavActive,
     hamburgerExpanded |-> hamburgerExpanded,
     bodyOverflow |-> bodyOverflow,
     accordionExpanded |-> accordionExpanded,
     contentActive |-> contentActive,
     activeElement |-> Body,
     focusMoved |-> NOWHERE,
     pointerInside |-> pointerInside,
     absent |-> absent,
     accordionButtons |-> accordionButtons,
     errorRaised |-> FALSE,
     transitionProperty |-> transitionProperty,
     TRANSITION_DURATION |-> TRANSITION_DURATION,
     lastCall |-> "none",
     thrown |-> FALSE]

WithinBounds(s) ==
    s.strayTimers["anim"] + s.strayTimers["delay"]
        + s.focusTimers["close"] + s.focusTimers["first"] <= MaxUntrackedTimers

\* The task ends in state s.
Commit(s) ==
    /\ WithinBounds(s)
    /\ innerWidth' = s.innerWidth
    /\ currentOpenDropdown' = s.currentOpenDropdown
    /\ dropdownTimeout' = s.dropdownTimeout
    /\ strayTimers' = s.strayTimers
    /\ debounceTimeout' = s.debounceTimeout
    /\ focusTimers' = s.focusTimers
    /\ lastFocusedElement' = s.lastFocusedElement
    /\ mobileMenuOpen' = s.mobileMenuOpen
    /\ dropdownActive' = s.dropdownActive
    /\ areaActive' = s.areaActive
    /\ backdropActive' = s.backdropActive
    /\ buttonActive' = s.buttonActive
    /\ buttonExpanded' = s.buttonExpanded
    /\ tabindex' = s.tabindex
    /\ mobileNavActive' = s.mobileNavActive
    /\ hamburgerExpanded' = s.hamburgerExpanded
    /\ bodyOverflow' = s.bodyOverflow
    /\ accordionExpanded' = s.accordionExpanded
    /\ contentActive' = s.contentActive
    /\ focusMoved' = s.focusMoved
    /\ pointerInside' = s.pointerInside
    /\ absent' = s.absent
    /\ accordionButtons' = s.accordionButtons
    /\ errorRaised' = (s.errorRaised \/ s.thrown)
    /\ transitionProperty' = s.transitionProperty
    /\ TRANSITION_DURATION' = s.TRANSITION_DURATION
    /\ lastCall' = s.lastCall

\* ------------------------------------------------------------------------
\* Helpers for the statements of the script
\* ------------------------------------------------------------------------

\* A method call on a collaborator that is null raises a TypeError.
Throw(s) == [s EXCEPT !.thrown = TRUE]

\* One listener has returned (or raised); the next listener of the event runs.
NextListener(s) == [s EXCEPT !.thrown = FALSE, !.errorRaised = s.errorRaised \/ s.thrown]

isMobileMode(s) == s.innerWidth <= MOBILE_BREAKPOINT

\* clearTimeout(dropdownTimeout): cancels the timer the handle refers to.
clearDropdownTimeout(s) == [s EXCEPT !.dropdownTimeout = "none"]

\* dropdownTimeout = setTimeout(...): a timer the old handle still referred to
\* stays scheduled with no handle left to cancel it.
setDropdownTimeout(s, kind) ==
    [s EXCEPT !.strayTimers =
                  IF s.dropdownTimeout = "none" THEN @
                  ELSE [@ EXCEPT ![s.dropdownTimeout] = @ + 1],
              !.dropdownTimeout = kind]

\* debounce(func, delay)(): clearTimeout(debounceTimeout), then schedule func.
debounce(s, callback) == [s EXCEPT !.debounceTimeout = callback]

enableDropdownLinks(s, dropdown) ==
    [s EXCEPT !.tabindex = [l \in Links |-> IF l[1] = dropdown THEN "0" ELSE @[l]]]

disableDropdownLinks(s, dropdown) ==
    [s EXCEPT !.tabindex = [l \in Links |-> IF l[1] = dropdown THEN "-1" ELSE @[l]]]

focus(s, element) == [s EXCEPT !.activeElement = element, !.focusMoved = element]

\* ------------------------------------------------------------------------
\* The functions of the script
\* ------------------------------------------------------------------------

\* Mutant of deactivateDropdowns: the loop of lines 63-65 left out.
deactivateDropdowns_Skipped(s) == s

\* Lines 63-65: every panel loses 'active' at once.
deactivateDropdowns(s) == [s EXCEPT !.dropdownActive = {}]

\* Mutant of deactivateButtons: the loop over menuButtons left out.
deactivateButtons_Skipped(s) == s

\* Lines 68-71 and 102-105: every trigger loses 'active' and aria-expanded.
deactivateButtons(s) == [s EXCEPT !.buttonActive = {}, !.buttonExpanded = {}]

\* Lines 98-99: the area and the backdrop lose 'active'; either may be null.
deactivateArea(s) ==
    IF "dropdownArea" \in s.absent THEN Throw(s)
    ELSE IF "backdrop" \in s.absent THEN Throw([s EXCEPT !.areaActive = FALSE])
    ELSE [s EXCEPT !.areaActive = FALSE, !.backdropActive = FALSE]

\* Mutant of scheduleHide: the panels are closed at once, without the timer.
scheduleHide_Immediate(s) ==
    [s EXCEPT !.dropdownActive = {},
              !.tabindex = [l \in Links |-> "-1"],
              !.currentOpenDropdown = NULL]

\* Lines 108-115: the close-animation timer is scheduled.
scheduleHide(s) == setDropdownTimeout(s, "anim")

\* hideDropdowns (lines 93-116): begins the animated close.
hideDropdowns(s) ==
    IF isMobileMode(s) THEN [s EXCEPT !.lastCall = "hide:mobile"]
    ELSE LET collapsed == deactivateArea(s)
             begun == IF collapsed.thrown THEN collapsed
                      ELSE scheduleHide(deactivateButtons(collapsed))
         IN  [begun EXCEPT !.lastCall = IF begun.thrown THEN "hide:error" ELSE "hide:begin"]

\* The callback hideDropdowns schedules (lines 108-115): every panel loses
\* 'active' and disableDropdownLinks is applied to every panel.
hideDropdownsCallback(s) ==
    [s EXCEPT !.dropdownActive = {},
              !.tabindex = [l \in Links |-> disableDropdownLinks(s, l[1]).tabindex[l]],
              !.currentOpenDropdown = NULL,
              !.lastCall = "anim:done"]

\* Lines 74-77: the target panel, the area and the backdrop get 'active'.
activateDropdown(s, targetDropdown) ==
    LET shown == [s EXCEPT !.dropdownActive = @ \cup {targetDropdown}]
    IN  IF "dropdownArea" \in s.absent THEN Throw(shown)
        ELSE IF "backdrop" \in s.absent THEN Throw([shown EXCEPT !.areaActive = TRUE])
        ELSE [shown EXCEPT !.areaActive = TRUE,
                           !.backdropActive = TRUE,
                           !.currentOpenDropdown = targetDropdown]

\* Mutant of activateButton: the trigger is marked but not recorded (line 83
\* left out).
activateButton_NotRecorded(s, button) ==
    IF button = NULL THEN s
    ELSE [s EXCEPT !.buttonActive = @ \cup {button},
                   !.buttonExpanded = @ \cup {button}]

\* Lines 80-84: the trigger is marked and recorded for focus restoration.
activateButton(s, button) ==
    IF button = NULL THEN s
    ELSE [s EXCEPT !.buttonActive = @ \cup {button},
                   !.buttonExpanded = @ \cup {button},
                   !.lastFocusedElement = button]

\* showDropdown, lines 62-88: the immediate swap to targetDropdown.
showDropdownOpen(s, targetDropdown, button) ==
    LET cleared == deactivateButtons(deactivateDropdowns(s))
        shown == activateDropdown(cleared, targetDropdown)
        opened == IF shown.thrown THEN shown
                  ELSE enableDropdownLinks(activateButton(shown, button), targetDropdown)
    IN  [opened EXCEPT !.lastCall = IF opened.thrown THEN "show:error"
                                    ELSE IF s.currentOpenDropdown = NULL THEN "show:open"
                                    ELSE "show:swap"]

\* Mutant of showDropdown: the same-panel test of lines 57-60 left out.
showDropdown_NoToggle(s, dropdownId, button) ==
    IF isMobileMode(s) THEN [s EXCEPT !.lastCall = "show:mobile"]
    ELSE LET c == clearDropdownTimeout(s)
             targetDropdown == getDropdownById(dropdownId)
         IN  IF targetDropdown = NULL THEN [c EXCEPT !.lastCall = "show:unresolved"]
             ELSE showDropdownOpen(c, targetDropdown, button)

\* Mutant of showDropdown: the pending close timer is cleared before the
\* mobile gate instead of after it.
showDropdown_ClearsFirst(s, dropdownId, button) ==
    LET c == clearDropdownTimeout(s)
        targetDropdown == getDropdownById(dropdownId)
    IN  IF isMobileMode(s) THEN [c EXCEPT !.lastCall = "show:mobile"]
        ELSE IF targetDropdown = NULL THEN [c EXCEPT !.lastCall = "show:unresolved"]
        ELSE IF c.currentOpenDropdown = targetDropdown /\ button # NULL
            THEN LET h == hideDropdowns(c)
                 IN  IF h.thrown THEN h ELSE [h EXCEPT !.lastCall = "show:toggle"]
        ELSE showDropdownOpen(c, targetDropdown, button)

\* showDropdown (lines 45-88).
showDropdown(s, dropdownId, button) ==
    IF isMobileMode(s) THEN [s EXCEPT !.lastCall = "show:mobile"]
    ELSE LET c == clearDropdownTimeout(s)
             targetDropdown == getDropdownById(dropdownId)
         IN  IF targetDropdown = NULL THEN [c EXCEPT !.lastCall = "show:unresolved"]
             ELSE IF c.currentOpenDropdown = targetDropdown /\ button # NULL
                 THEN LET h == hideDropdowns(c)
                      IN  IF h.thrown THEN h ELSE [h EXCEPT !.lastCall = "show:toggle"]
             ELSE showDropdownOpen(c, targetDropdown, button)

\* Line 130: the page body stops scrolling.
lockScroll(s) == [s EXCEPT !.bodyOverflow = "hidden"]

\* Mutant of restoreScroll: line 148 left out.
restoreScroll_Skipped(s) == s

\* Line 148: the page body scrolls again.
restoreScroll(s) == [s EXCEPT !.bodyOverflow = ""]

\* openMobileMenu (lines 121-136).
openMobileMenu(s) ==
    IF ~isMobileMode(s) THEN [s EXCEPT !.lastCall = "open:desktop"]
    ELSE IF "mobileNav" \in s.absent THEN Throw([s EXCEPT !.lastCall = "open:error"])
    ELSE IF "backdrop" \in s.absent
        THEN Throw([s EXCEPT !.mobileNavActive = TRUE, !.lastCall = "open:error"])
    ELSE IF "hamburgerButton" \in s.absent
        THEN Throw([s EXCEPT !.mobileNavActive = TRUE, !.backdropActive = TRUE,
                             !.lastCall = "open:error"])
    ELSE [lockScroll(s) EXCEPT
                   !.mobileNavActive = TRUE,
                   !.backdropActive = TRUE,
                   !.hamburgerExpanded = TRUE,
                   !.mobileMenuOpen = TRUE,
                   !.focusTimers = [@ EXCEPT !["close"] = @ + 1],
                   !.lastCall = "open:opened"]

\* closeMobileMenu (lines 141-152).
closeMobileMenu(s) ==
    IF "mobileNav" \in s.absent THEN Throw([s EXCEPT !.lastCall = "close:error"])
    ELSE IF "backdrop" \in s.absent
        THEN Throw([s EXCEPT !.mobileNavActive = FALSE, !.lastCall = "close:error"])
    ELSE IF "hamburgerButton" \in s.absent
        THEN Throw([s EXCEPT !.mobileNavActive = FALSE, !.backdropActive = FALSE,
                             !.lastCall = "close:error"])
    ELSE [restoreScroll(s) EXCEPT
                   !.mobileNavActive = FALSE,
                   !.backdropActive = FALSE,
                   !.hamburgerExpanded = FALSE,
                   !.mobileMenuOpen = FALSE,
                   !.activeElement = HamburgerEl,
                   !.focusMoved = HamburgerEl,
                   !.lastCall = "close:closed"]

\* Mutant of toggleMobileAccordion: expanding a section collapses the others.
toggleMobileAccordion_Exclusive(s, button) ==
    LET isExpanded == button \in s.accordionExpanded
        targetContent == getContentById(ariaControls(button))
    IN  IF targetContent = NULL THEN s
        ELSE IF isExpanded
            THEN [s EXCEPT !.accordionExpanded = @ \ {button},
                           !.contentActive = @ \ {targetContent}]
        ELSE [s EXCEPT !.accordionExpanded = {button},
                       !.contentActive = {targetContent}]

\* toggleMobileAccordion (lines 157-173).
toggleMobileAccordion(s, button) ==
    LET isExpanded == button \in s.accordionExpanded
        targetContent == getContentById(ariaControls(button))
    IN  IF targetContent = NULL THEN s
        ELSE IF isExpanded
            THEN [s EXCEPT !.accordionExpanded = @ \ {button},
                           !.contentActive = @ \ {targetContent}]
        ELSE [s EXCEPT !.accordionExpanded = @ \cup {button},
                       !.contentActive = @ \cup {targetContent}]

\* handleResize (lines 305-317), the callback of the resize debounce.
handleResize(s) ==
    IF isMobileMode(s)
    THEN IF s.currentOpenDropdown # NULL THEN hideDropdowns(s) ELSE s
    ELSE IF s.mobileMenuOpen THEN closeMobileMenu(s) ELSE s

\* The callback of the post-open focus timer (lines 233-238).
focusFirstLink(s) ==
    IF s.currentOpenDropdown # NULL /\ Len(LinkNames) >= 1
    THEN focus(s, LinkEl(s.currentOpenDropdown, LinkNames[1]))
    ELSE s

\* The callback of the mobile panel's focus timer (lines 133-135).
focusMobileNavClose(s) ==
    IF "mobileNavClose" \in s.absent THEN Throw(s) ELSE focus(s, MobileNavCloseEl)

\* lastFocusedElement.focus() behind its null check (lines 213-215, 252-254).
focusLastFocused(s) ==
    IF s.lastFocusedElement # NULL THEN focus(s, ButtonEl(s.lastFocusedElement)) ELSE s

\* handleKeyboardNavigation, lines 220-261: the desktop branch.
desktopKeys(s, key, shiftKey) ==
    LET el == s.activeElement
        cur == s.currentOpenDropdown
    IN  IF key \in {"Enter", " "} /\ el.kind = "menuButton"
        THEN IF el.of \in s.buttonExpanded
             THEN hideDropdowns(s)
             ELSE LET shown == showDropdown(s, dataDropdown(el.of), el.of)
                  IN  IF shown.thrown THEN shown
                      ELSE [shown EXCEPT !.focusTimers = [@ EXCEPT !["first"] = @ + 1]]
        ELSE IF key = "Tab" /\ cur # NULL /\ Len(LinkNames) >= 1
        THEN IF shiftKey /\ el = LinkEl(cur, LinkNames[1]) THEN focusLastFocused(s)
             ELSE IF ~shiftKey /\ el = LinkEl(cur, LinkNames[Len(LinkNames)])
                 THEN hideDropdowns(s)
             ELSE s
        ELSE s

\* handleKeyboardNavigation, lines 263-270: the mobile branch.
mobileKeys(s, key) ==
    IF key \in {"Enter", " "} /\ s.activeElement.kind = "accordionButton"
    THEN toggleMobileAccordion(s, s.activeElement.of)
    ELSE s

\* handleKeyboardNavigation (lines 198-271).
handleKeyboardNavigation(s, key, shiftKey) ==
    IF key = "Escape" /\ s.mobileMenuOpen THEN closeMobileMenu(s)
    ELSE IF key = "Escape" /\ s.currentOpenDropdown # NULL
        THEN LET hidden == hideDropdowns(s)
             IN  IF hidden.thrown THEN hidden ELSE focusLastFocused(hidden)
    ELSE IF ~isMobileMode(s) THEN desktopKeys(s, key, shiftKey)
    ELSE mobileKeys(s, key)

\* handleMouseEnter (lines 276-286); button is NULL when the entered element
\* is not inside a [data-dropdown] element.
handleMouseEnter(s, button) ==
    IF isMobileMode(s) THEN s
    ELSE IF button # NULL THEN debounce(s, ShowCallback(button))
    ELSE s

\* handleMouseLeave (lines 291-300).
handleMouseLeave(s) ==
    IF isMobileMode(s) THEN s ELSE debounce(s, LeaveCallback)

\* The callback handleMouseLeave debounces (lines 296-298).
leaveCallback(s) == setDropdownTimeout(s, "delay")

\* The click listener of a menu button (lines 350-361).
menuButtonClick(s, button) ==
    IF isMobileMode(s) THEN s
    ELSE IF button \in s.buttonExpanded THEN hideDropdowns(s)
    ELSE showDropdown(s, dataDropdown(button), button)

\* The click listener of the backdrop (lines 390-396).
backdropClick(s) ==
    IF s.mobileMenuOpen THEN closeMobileMenu(s)
    ELSE IF s.currentOpenDropdown # NULL THEN hideDropdowns(s)
    ELSE s

\* The click listener of the document (lines 408-415); insideWrapper is
\* menuWrapper.contains(event.target).
documentClick(s, insideWrapper) ==
    IF isMobileMode(s) /\ s.currentOpenDropdown # NULL
    THEN IF "menuWrapper" \in s.absent THEN Throw(s)
         ELSE IF ~insideWrapper THEN hideDropdowns(s)
         ELSE s
    ELSE s

\* init, lines 324-331: TRANSITION_DURATION is computed from the custom
\* property; it keeps its value when neither branch is taken.
readTransitionDuration(s) ==
    LET cssDuration == trim(s.transitionProperty)
    IN  IF endsWith(cssDuration, <<"s">>)
        THEN [s EXCEPT !.TRANSITION_DURATION = times(parseFloat(cssDuration), 1000)]
        ELSE IF endsWith(cssDuration, <<"m", "s">>)
        THEN [s EXCEPT !.TRANSITION_DURATION = parseFloat(cssDuration)]
        ELSE s

\* The state before init runs (lines 3 and 324-325).
BeforeInit(property) ==
    [transitionProperty |-> property,
     TRANSITION_DURATION |-> DEFAULT_TRANSITION_DURATION * Unit]

\* init registers the hover listeners only behind this test (line 334).
hoverListeners(s) == {"menuWrapper", "dropdownArea"} \cap s.absent = {}

\* ------------------------------------------------------------------------
\* Initial state: the state init() leaves (lines 9-13, 322-416)
\* ------------------------------------------------------------------------

InitWith(missing, accordions) ==
    /\ innerWidth \in Widths
    /\ currentOpenDropdown = NULL
    /\ dropdownTimeout = "none"
    /\ strayTimers = [k \in {"anim", "delay"} |-> 0]
    /\ debounceTimeout = NoDebounce
    /\ focusTimers = [k \in {"close", "first"} |-> 0]
    /\ lastFocusedElement = NULL
    /\ mobileMenuOpen = FALSE
    /\ dropdownActive = {}
    /\ areaActive = FALSE
    /\ backdropActive = FALSE
    /\ buttonActive = {}
    /\ buttonExpanded = {}
    /\ tabindex = [l \in Links |-> "-1"]
    /\ mobileNavActive = FALSE
    /\ hamburgerExpanded = FALSE
    /\ bodyOverflow = ""
    /\ accordionExpanded = {}
    /\ contentActive = {}
    /\ focusMoved = NOWHERE
    /\ pointerInside = FALSE
    /\ absent = missing
    /\ accordionButtons = accordions
    /\ errorRaised = FALSE
    /\ lastCall = "none"

\* The duration init has computed from the custom-property value.
DurationFrom(property) ==
    /\ transitionProperty = property
    /\ TRANSITION_DURATION = readTransitionDuration(BeforeInit(property)).TRANSITION_DURATION

Init == InitWith({}, NoAccordion) /\ DurationFrom(ExampleDuration)

\* ------------------------------------------------------------------------
\* Actions: one per event or timer callback
\* ------------------------------------------------------------------------

\* A resize event, to a new width or at the same width (a change of height):
\* the debounced handleResize is rescheduled (line 405).
Resize(w) ==
    /\ w \in Widths
    /\ Commit(debounce([Cur EXCEPT !.innerWidth = w], ResizeCallback))

\* The debounce timer fires and runs the callback it holds.
DebounceFires ==
    /\ debounceTimeout.kind # "none"
    /\ LET s == [Cur EXCEPT !.debounceTimeout = NoDebounce]
           cb == debounceTimeout
       IN  Commit(CASE cb.kind = "show" -> showDropdown(s, dataDropdown(cb.button), cb.button)
                    [] cb.kind = "leave" -> leaveCallback(s)
                    [] OTHER -> handleResize(s))

\* A close timer fires: the one dropdownTimeout refers to, or a stray one.
\* "anim" runs the callback of hideDropdowns, "delay" calls hideDropdowns.
TimerCallback(s, kind) == IF kind = "anim" THEN hideDropdownsCallback(s) ELSE hideDropdowns(s)

HeldTimerFires ==
    /\ dropdownTimeout # "none"
    /\ Commit(TimerCallback([Cur EXCEPT !.dropdownTimeout = "none"], dropdownTimeout))

StrayTimerFires(kind) ==
    /\ strayTimers[kind] > 0
    /\ Commit(TimerCallback([Cur EXCEPT !.strayTimers[kind] = @ - 1], kind))

\* A focus timer fires.
FocusTimerFires(kind) ==
    /\ focusTimers[kind] > 0
    /\ LET s == [Cur EXCEPT !.focusTimers[kind] = @ - 1]
       IN  Commit(IF kind = "close" THEN focusMobileNavClose(s) ELSE focusFirstLink(s))

\* Click on a menu button: its listener, then the document's.
ClickMenuButton(b) ==
    /\ b \in MenuButtons
    /\ Commit(documentClick(NextListener(menuButtonClick(Cur, b)), TRUE))

ClickHamburger(inside) ==
    /\ "hamburgerButton" \notin absent
    /\ Commit(documentClick(NextListener(openMobileMenu(Cur)), inside))

ClickMobileNavClose(inside) ==
    /\ "mobileNavClose" \notin absent
    /\ Commit(documentClick(NextListener(closeMobileMenu(Cur)), inside))

ClickAccordion(a, inside) ==
    /\ a \in accordionButtons
    /\ Commit(documentClick(NextListener(toggleMobileAccordion(Cur, a)), inside))

ClickBackdrop(inside) ==
    /\ "backdrop" \notin absent
    /\ Commit(documentClick(NextListener(backdropClick(Cur)), inside))

\* Click on anything else: only the document's listener runs.
ClickElsewhere(inside) ==
    /\ inside \in BOOLEAN
    /\ Commit(documentClick(Cur, inside))

Keys == {"Escape", "Enter", " ", "Tab"}

\* A keydown event; el is document.activeElement (line 200).  A link can hold
\* the focus only while its panel is displayed.  The handler reads shiftKey
\* for Tab only, and the focused element for Enter, Space and Tab only.
Keydown(key, shiftKey, el) ==
    /\ shiftKey => key = "Tab"
    /\ key = "Escape" => el = Body
    /\ el.kind = "link" => el.of \in dropdownActive
    /\ el.kind = "accordionButton" => el.of \in accordionButtons
    /\ Commit(handleKeyboardNavigation([Cur EXCEPT !.activeElement = el], key, shiftKey))

\* The pointer enters .menu-wrapper from outside, onto a trigger (button) or
\* onto another element of the region (NULL): mouseenter at the wrapper runs
\* handleMouseEnter and the listener of lines 339-341, then mouseenter at the
\* trigger runs handleMouseEnter again through the capturing listener.
PointerEnters(button) ==
    /\ ~pointerInside
    /\ "menuWrapper" \notin absent
    /\ LET s == [Cur EXCEPT !.pointerInside = TRUE]
       IN  IF hoverListeners(s)
           THEN Commit(handleMouseEnter(clearDropdownTimeout(handleMouseEnter(s, NULL)), button))
           ELSE Commit(s)

\* The pointer, inside the region, moves onto a trigger.
PointerOverButton(button) ==
    /\ pointerInside
    /\ hoverListeners(Cur)
    /\ Commit(handleMouseEnter(Cur, button))

\* The pointer leaves .menu-wrapper.
PointerLeaves ==
    /\ pointerInside
    /\ LET s == [Cur EXCEPT !.pointerInside = FALSE]
       IN  Commit(IF hoverListeners(s) THEN handleMouseLeave(s) ELSE s)

Next ==
    \/ \E w \in Widths : Resize(w)
    \/ DebounceFires
    \/ HeldTimerFires
    \/ \E kind \in {"anim", "delay"} : StrayTimerFires(kind)
    \/ \E kind \in {"close", "first"} : FocusTimerFires(kind)
    \/ \E b \in MenuButtons : ClickMenuButton(b)
    \/ \E inside \in BOOLEAN : ClickHamburger(inside)
    \/ \E inside \in BOOLEAN : ClickMobileNavClose(inside)
    \/ \E inside \in BOOLEAN : ClickBackdrop(inside)
    \/ \E inside \in BOOLEAN : ClickElsewhere(inside)
    \/ \E key \in Keys, shiftKey \in BOOLEAN, el \in Focusable : Keydown(key, shiftKey, el)
    \/ \E b \in MenuButtons \cup {NULL} : PointerEnters(b)
    \/ \E b \in MenuButtons : PointerOverButton(b)
    \/ PointerLeaves

Spec == Init /\ [][Next]_vars

\* ------------------------------------------------------------------------
\* Vocabulary of the properties
\* ------------------------------------------------------------------------

\* The resize debounce has settled and handleResize runs in this step.
ResizeHandlerRuns == DebounceFires /\ debounceTimeout.kind = "resize"

\* A close has been begun and its animation timer is the one dropdownTimeout holds.
HideBegun ==
    /\ ~areaActive
    /\ ~backdropActive
    /\ buttonActive = {}
    /\ buttonExpanded = {}
    /\ dropdownTimeout = "anim"

\* Some close-animation timer is scheduled.
AnimationPending == dropdownTimeout = "anim" \/ strayTimers["anim"] > 0

\* The animation duration of the close begun last has elapsed: the timer
\* dropdownTimeout holds fires and it is a close-animation timer.
AnimationEnds == HeldTimerFires /\ dropdownTimeout = "anim"

\* This step calls hideDropdowns in desktop mode (directly or through the
\* toggle of showDropdown) and the call ran to its end.
HideRequestRuns == lastCall' \in {"hide:begin", "show:toggle"}

\* This step calls showDropdown(dataDropdown(b), b): the call sites are the
\* click listener (line 359), the hover debounce (line 284) and Enter or
\* Space on a focused trigger (line 231).
ShowRequest(b) ==
    \/ /\ ~isMobileMode(Cur)
       /\ b \notin buttonExpanded
       /\ ClickMenuButton(b)
    \/ /\ debounceTimeout = ShowCallback(b)
       /\ DebounceFires
    \/ /\ ~isMobileMode(Cur)
       /\ b \notin buttonExpanded
       /\ \E key \in {"Enter", " "} : Keydown(key, FALSE, ButtonEl(b))

\* The panel a trigger names, NULL when its id does not resolve.
PanelOf(b) == getDropdownById(dataDropdown(b))

LinksReachable(d) == \A l \in Links : l[1] = d => tabindex[l] = "0"

\* The desktop dropdown state of a state record.
DropdownState(s) ==
    <<s.currentOpenDropdown, s.dropdownActive, s.areaActive, s.buttonActive,
      s.buttonExpanded, s.tabindex, s.lastFocusedElement, s.dropdownTimeout, s.strayTimers>>

\* ------------------------------------------------------------------------
\* Properties
\* ------------------------------------------------------------------------

\* C1: when handleResize runs in mobile mode while a dropdown is open, the
\* close of that dropdown is begun (area, backdrop and triggers deactivated,
\* close-animation timer scheduled).
C1_ResizeToMobileBeginsHide ==
    [][(ResizeHandlerRuns /\ isMobileMode(Cur) /\ currentOpenDropdown # NULL)
          => HideBegun']_vars

\* C2: whenever no resize debounce and no close-animation timer is pending,
\* the mobile panel's open flag and a non-null open-dropdown reference are
\* never both set.
C2_ModesExclusive ==
    (debounceTimeout.kind # "resize" /\ ~AnimationPending)
        => ~(mobileMenuOpen /\ currentOpenDropdown # NULL)

\* C3: in every reachable state at most one dropdown panel carries the
\* active class.
C3_AtMostOneActive == Cardinality(dropdownActive) <= 1

\* C3 witness: a show request has just swapped one open panel for another.
C3_Witness ==
    /\ lastCall = "show:swap"
    /\ dropdownActive = {currentOpenDropdown}

\* C4: in desktop mode a hide request on an open dropdown deactivates the
\* area, the backdrop and every trigger at once while the panel stays active,
\* its links stay tab-reachable and the open-dropdown reference is unchanged;
\* when the animation timer of that request then fires, every panel is
\* inactive, every link has tabindex -1 and the reference is null.
C4_HideIsDeferred ==
    [][/\ (currentOpenDropdown # NULL /\ HideRequestRuns)
            => /\ HideBegun'
               /\ currentOpenDropdown' = currentOpenDropdown
               /\ currentOpenDropdown \in dropdownActive'
               /\ LinksReachable(currentOpenDropdown)'
       /\ (lastCall \in {"hide:begin", "show:toggle"} /\ AnimationEnds)
            => /\ dropdownActive' = {}
               /\ \A l \in Links : tabindex'[l] = "-1"
               /\ currentOpenDropdown' = NULL]_vars

\* C4 witness: a hide request has just run on an open dropdown, whose panel
\* is still active and reachable.
C4_Witness ==
    /\ lastCall = "hide:begin"
    /\ HideBegun
    /\ currentOpenDropdown \in dropdownActive
    /\ LinksReachable(currentOpenDropdown)

\* C5: the body's overflow is 'hidden' exactly when mobileMenuOpen is true.
C5_NoScrollIffOpen == (bodyOverflow = "hidden") <=> mobileMenuOpen

\* C5 witness: the panel was opened (its focus timer is still pending) and
\* has just been closed again.
C5_Witness ==
    /\ lastCall = "close:closed"
    /\ focusTimers["close"] > 0
    /\ ~mobileMenuOpen
    /\ bodyOverflow = ""

\* C6: an Escape keydown with the mobile panel open closes the panel and
\* leaves the dropdown state alone; with the panel closed and a dropdown open
\* it begins the dropdown's close and moves the focus to the recorded trigger.
C6_EscapeCloses ==
    [][Keydown("Escape", FALSE, Body)
          => IF mobileMenuOpen
             THEN ~mobileMenuOpen' /\ DropdownState(Cur)' = DropdownState(Cur)
             ELSE currentOpenDropdown # NULL
                      => HideBegun' /\ focusMoved' = ButtonEl(lastFocusedElement)]_vars

\* C7: in desktop mode a show request of trigger b for a panel that exists,
\* made while no dropdown is open, leaves that panel the only active panel
\* and the open dropdown, the area and the backdrop active, b the only
\* expanded trigger, the panel's links reachable and b recorded.
C7_ShowFromClosedOpens ==
    [][\A b \in MenuButtons :
          (~isMobileMode(Cur) /\ currentOpenDropdown = NULL /\ PanelOf(b) # NULL
                /\ ShowRequest(b))
            => /\ dropdownActive' = {PanelOf(b)}
               /\ currentOpenDropdown' = PanelOf(b)
               /\ areaActive' /\ backdropActive'
               /\ buttonExpanded' = {b}
               /\ LinksReachable(PanelOf(b))'
               /\ lastFocusedElement' = b]_vars

\* C7 witness: a show request has just opened a panel from Closed.
C7_Witness ==
    /\ lastCall = "show:open"
    /\ currentOpenDropdown \in Dropdowns
    /\ buttonExpanded = {lastFocusedElement}

\* C8: in desktop mode a show request of trigger b for the panel that is the
\* open dropdown changes no panel and begins a hide; when the animation timer
\* of that hide then fires, the state is Closed with no panel active and no
\* trigger expanded.
C8_ShowOnOpenToggles ==
    [][/\ \A b \in MenuButtons :
            (~isMobileMode(Cur) /\ currentOpenDropdown # NULL
                  /\ PanelOf(b) = currentOpenDropdown /\ ShowRequest(b))
              => /\ dropdownActive' = dropdownActive
                 /\ currentOpenDropdown' = currentOpenDropdown
                 /\ HideBegun'
       /\ (lastCall = "show:toggle" /\ AnimationEnds)
            => /\ currentOpenDropdown' = NULL
               /\ dropdownActive' = {}
               /\ buttonExpanded' = {}]_vars

\* C8 witness: a show request has just toggled the open panel off.
C8_Witness ==
    /\ lastCall = "show:toggle"
    /\ HideBegun
    /\ currentOpenDropdown \in dropdownActive

\* C9: in desktop mode a show request of trigger b for panel d while another
\* panel is open swaps in one step: the old panel is inactive, d is the only
\* active panel and the open dropdown, b is the only expanded trigger, and
\* the request schedules no close timer.
C9_SwapIsImmediate ==
    [][\A b \in MenuButtons :
          (~isMobileMode(Cur) /\ PanelOf(b) # NULL
                /\ currentOpenDropdown \notin {NULL, PanelOf(b)} /\ ShowRequest(b))
            => /\ currentOpenDropdown \notin dropdownActive'
               /\ dropdownActive' = {PanelOf(b)}
               /\ currentOpenDropdown' = PanelOf(b)
               /\ buttonExpanded' = {b}
               /\ dropdownTimeout' = "none"
               /\ strayTimers' = strayTimers]_vars

\* C9 witness: a swap has just happened and no close timer is held.
C9_Witness ==
    /\ lastCall = "show:swap"
    /\ Cardinality(buttonExpanded) = 1
    /\ dropdownTimeout = "none"

CloseDelayEnds ==
    \/ HeldTimerFires /\ dropdownTimeout = "delay"
    \/ StrayTimerFires("delay")

\* C11: once the pointer has re-entered the menu region (on a trigger or on
\* any other element) the hide caused by the earlier pointer-leave never
\* begins: when the close delay of a leave ends while the pointer is inside
\* the region, the open dropdown stays open.
C11_EnterCancelsClose ==
    [][(pointerInside /\ currentOpenDropdown # NULL /\ areaActive /\ CloseDelayEnds)
          => (areaActive' /\ lastCall' # "hide:begin")]_vars

\* A pointer-enter or pointer-leave event of the menu region.
PointerEvent ==
    \/ PointerLeaves
    \/ \E b \in MenuButtons \cup {NULL} : PointerEnters(b)
    \/ \E b \in MenuButtons : PointerOverButton(b)

\* C12: after a resize to desktop width with the mobile panel open, the
\* pending resize handler survives every pointer-enter and pointer-leave
\* event, and when it runs the mobile panel is closed (open flag false,
\* no-scroll removed).
C12_ResizeClosesMobilePanel ==
    [][/\ (~isMobileMode(Cur) /\ mobileMenuOpen /\ debounceTimeout = ResizeCallback
              /\ PointerEvent)
            => debounceTimeout' = ResizeCallback
       /\ (~isMobileMode(Cur) /\ mobileMenuOpen /\ ResizeHandlerRuns)
            => (~mobileMenuOpen' /\ bodyOverflow' = "")]_vars

\* C13: in desktop mode a show request of a trigger whose id does not
\* resolve to a panel leaves the open-dropdown reference, the active classes,
\* the expanded attributes, the tabindex values, the recorded trigger and
\* every pending close timer as they were.
C13_UnresolvedShowIsNoOp ==
    [][\A b \in MenuButtons :
          (~isMobileMode(Cur) /\ PanelOf(b) = NULL /\ ShowRequest(b))
            => (DropdownState(Cur)' = DropdownState(Cur) /\ backdropActive' = backdropActive)]_vars

\* ------------------------------------------------------------------------
\* Documents that lack one collaborator element (lines 16-22 return null)
\* ------------------------------------------------------------------------

OptionalCollaborators ==
    {"backdrop", "dropdownArea", "hamburgerButton", "mobileNav", "mobileNavClose"}

InitAbsent ==
    \E c \in OptionalCollaborators :
        InitWith({c}, NoAccordion) /\ DurationFrom(ExampleDuration)

SpecAbsent == InitAbsent /\ [][Next]_vars

\* C14: with one collaborator element absent, no handler raises an error and
\* none leaves a partial update: no panel is active while the open-dropdown
\* reference is null, the area and the backdrop are active together, and the
\* mobile panel's class agrees with its open flag.
C14_AbsentIsSkipped ==
    /\ ~errorRaised
    /\ currentOpenDropdown = NULL => dropdownActive = {}
    /\ mobileNavActive <=> mobileMenuOpen

\* ------------------------------------------------------------------------
\* The duration init computes, over a bounded set of custom-property values
\* ------------------------------------------------------------------------

InputDigits == {"0", "6"}

\* The digit strings of at most n digits.
DigitStrings(n) == UNION {[1..k -> InputDigits] : k \in 0..n}

\* The numbers a value can carry: digits, an optional point, digits.
Numbers ==
    {n \in [int : DigitStrings(MaxIntegerDigits), point : BOOLEAN,
            frac : DigitStrings(MaxFractionDigits)] : n.frac # <<>> => n.point}

Suffixes == {<<>>, <<"s">>, <<"m", "s">>}

\* getPropertyValue can return the value with its leading white space.
Paddings == {<<>>, <<" ">>}

\* The text of a number.
Format(n) == n.int \o (IF n.point THEN <<".">> ELSE <<>>) \o n.frac

Parsable(n) == n.int # <<>> \/ n.frac # <<>>

\* The value of a number, in Unit-ths.
NumberValue(n) ==
    digitsValue(n.int) * Unit + digitsValue(n.frac) * 10 ^ (MaxFractionDigits - Len(n.frac))

\* The script has been loaded and init has not run yet.
InitDuration ==
    \E pad \in Paddings, n \in Numbers, suffix \in Suffixes :
        /\ InitWith({}, NoAccordion)
        /\ transitionProperty = pad \o Format(n) \o suffix
        /\ TRANSITION_DURATION = BeforeInit(transitionProperty).TRANSITION_DURATION

\* init runs its lines 324-331.
initReadsDuration ==
    /\ lastCall = "none"
    /\ Commit([readTransitionDuration(Cur) EXCEPT !.lastCall = "init"])

NextDuration == initReadsDuration

SpecDuration == InitDuration /\ [][NextDuration]_vars

\* The reference of the duration, in Unit-ths of a millisecond: n * 1000 for
\* n followed by 's', n for n followed by 'ms', the default when there is no
\* parsable number.
ReferenceDuration(n, suffix) ==
    IF ~Parsable(n) THEN DEFAULT_TRANSITION_DURATION * Unit
    ELSE IF suffix = <<"s">> THEN NumberValue(n) * 1000
    ELSE NumberValue(n)

\* C15: once init has run, the animation duration equals the reference for
\* every custom-property value made of a number and the suffix 's' or 'ms',
\* and the default of 600 ms when the value is absent or carries no parsable
\* number.
C15_DurationMatchesReference ==
    lastCall = "init"
        => \A n \in Numbers, suffix \in Suffixes :
              (trim(transitionProperty) = Format(n) \o suffix
                    /\ (suffix # <<>> \/ ~Parsable(n)))
                => TRANSITION_DURATION = ReferenceDuration(n, suffix)

\* ------------------------------------------------------------------------
\* Documents whose mobile panel holds accordion sections
\* ------------------------------------------------------------------------

InitAccordion == InitWith({}, AccordionButtons) /\ DurationFrom(ExampleDuration)

\* The events of the mobile panel: the accordion triggers by click and by
\* key, the panel's open and close controls, Escape, and the resize that
\* changes the mode.
NextAccordion ==
    \/ \E a \in AccordionButtons, inside \in BOOLEAN : ClickAccordion(a, inside)
    \/ \E key \in Keys, a \in AccordionButtons : Keydown(key, FALSE, AccordionEl(a))
    \/ Keydown("Escape", FALSE, Body)
    \/ \E inside \in BOOLEAN : ClickHamburger(inside)
    \/ \E inside \in BOOLEAN : ClickMobileNavClose(inside)
    \/ \E inside \in BOOLEAN : ClickBackdrop(inside)
    \/ FocusTimerFires("close")
    \/ \E w \in Widths : Resize(w)
    \/ DebounceFires

SpecAccordion == InitAccordion /\ [][NextAccordion]_vars

\* This step calls toggleMobileAccordion on the trigger a: the call sites are
\* the click listener (line 383) and Enter or Space on the focused trigger in
\* mobile mode (line 268).
ToggleRequest(a) ==
    \/ \E inside \in BOOLEAN : ClickAccordion(a, inside)
    \/ /\ isMobileMode(Cur)
       /\ \E key \in {"Enter", " "} : Keydown(key, FALSE, AccordionEl(a))

\* The accordion state of one section: its trigger's expanded attribute and
\* its content region's active class.
SectionState(a) == <<a \in accordionExpanded, ariaControls(a) \in contentActive>>

\* C16: a toggle of the trigger of section a flips a's expanded attribute
\* and a's content class and leaves every other section as it was; a toggle
\* whose content region does not resolve changes no section.
C16_AccordionIndependent ==
    [][\A a \in AccordionButtons :
          ToggleRequest(a)
            => /\ \A b \in AccordionButtons \ {a} : SectionState(b)' = SectionState(b)
               /\ IF getContentById(ariaControls(a)) = NULL
                  THEN SectionState(a)' = SectionState(a)
                  ELSE /\ (a \in accordionExpanded') <=> (a \notin accordionExpanded)
                       /\ (ariaControls(a) \in contentActive')
                              <=> (ariaControls(a) \notin contentActive)]_vars

\* C16 witness: every section whose content resolves is expanded at once,
\* and the trigger whose content does not resolve is not.
C16_Witness ==
    /\ accordionExpanded = {a \in AccordionButtons : getContentById(ariaControls(a)) # NULL}
    /\ contentActive = AccordionContents
    /\ Cardinality(contentActive) > 1

\* The close timers that are live: the one dropdownTimeout refers to and
\* those whose handle was overwritten.
LiveCloseTimers ==
    (IF dropdownTimeout = "none" THEN 0 ELSE 1) + strayTimers["anim"] + strayTimers["delay"]

\* C17: at most one close timer (post-leave close delay or close-animation
\* timer) is live in every reachable state: no handle is overwritten while
\* its timer is live.
C17_OneCloseTimer == LiveCloseTimers <= 1

\* C18: in desktop mode, whenever some panel is active or has tab-reachable
\* links while the dropdown area is not active, a close-animation timer is
\* pending.
C18_CloseNeverStranded ==
    (/\ ~isMobileMode(Cur)
     /\ ~areaActive
     /\ (dropdownActive # {} \/ \E l \in Links : tabindex[l] = "0"))
        => AnimationPending

\* C19: whenever the open-dropdown reference is null, no trigger carries the
\* active class or expanded = true and the dropdown area is not active.
C19_ClosedIsConsistent ==
    currentOpenDropdown = NULL
        => (buttonActive = {} /\ buttonExpanded = {} /\ ~areaActive)

\* C20: the links of a panel have tabindex 0 only if that panel carries the
\* active class.
C20_ReachableOnlyIfActive ==
    \A l \in Links : tabindex[l] = "0" => l[1] \in dropdownActive

====
